---- MODULE Spec2Model ----
(***************************************************************************)
(* Model of the {php}IPAM execution module src/phpipam.py: the Api class   *)
(* (configuration, token, query) and the four lookup functions get,        *)
(* get_tags, get_tag_id and get_addrs_by_tag.                              *)
(*                                                                         *)
(* One behaviour is one invocation of one lookup function.  The remote     *)
(* server and the configuration source are the environment: every answer   *)
(* (status code, JSON body) is drawn when the request is answered; the     *)
(* subnet table is drawn once, because get may ask for one subnet twice.   *)
(*                                                                         *)
(* JSON objects are functions whose DOMAIN is the set of keys present.     *)
(* Strings that the code assembles (URLs, resource paths) are sequences    *)
(* of tokens, so that concatenation and every slash stay visible.          *)
(* The TLS trust store path (verify) and logging are not modelled.         *)
(***************************************************************************)
EXTENDS Integers, Sequences, FiniteSets, TLC

VARIABLES
  op,               \* the lookup function that was invoked
  key,              \* get: the hostname argument
  tag,              \* get_tag_id, get_addrs_by_tag: the tag argument
  exclude_gateway,  \* get_addrs_by_tag: the flag argument
  pc,               \* the position of the invocation in the code
  config,           \* what the configuration source gave the last Api()
  api,              \* the Api object in use
  reqs,             \* the HTTP requests sent so far, in order
  resp,             \* the last HTTP answer received
  grants,           \* the tokens obtained so far, with the request that got each
  subnets,          \* remote state: the body served for subnets/<id>
  data,             \* the local variable data (a query result)
  idx,              \* get: the position of the for loop in data
  tag_id,           \* get_addrs_by_tag: the local variable tag_id
  ret,              \* the value returned to the caller
  err               \* the exception that left the function

vars == <<op, key, tag, exclude_gateway, pc, config, api, reqs, resp,
          grants, subnets, data, idx, tag_id, ret, err>>

----------------------------------------------------------------------------
(* Bounds of the model                                                     *)

MaxRecs == 2
MaxTags == 2
MaxAddrs == 2

----------------------------------------------------------------------------
(* Python values                                                           *)

None == "None"
EmptyStr == ""
JsonZero == "int:0"
JsonOne == "int:1"

\* the empty dict {} (also what query returns when nothing was found)
EmptyDict == [k \in {} |-> None]

\* Python truthiness of the scalar values used here
Truthy(v) == v \notin {None, EmptyStr, JsonZero}

\* dict.get(k, None)
Get(d, k) == IF k \in DOMAIN d THEN d[k] ELSE None

\* d[k] = v on a dict
Put(d, k, v) == [x \in (DOMAIN d) \cup {k} |-> IF x = k THEN v ELSE d[x]]

\* a dict built from a full record, keeping only the keys whose value is
\* present (None marks a key that the JSON object does not carry)
Dict(r) == [k \in {x \in DOMAIN r : r[x] # None} |-> r[k]]

\* len(x) > 0 for a dict or a list
NonEmpty(x) == DOMAIN x # {}

Digits == <<"0", "1", "2", "3", "4", "5", "6", "7", "8", "9">>

RECURSIVE Str(_)
\* str(n) for a non-negative integer
Str(n) == IF n < 10 THEN Digits[n + 1]
          ELSE Str(n \div 10) \o Digits[(n % 10) + 1]

\* list.index(e): the 0-based position of the first element equal to e
ListIndex(s, e) == (CHOOSE i \in 1..Len(s) :
                      /\ s[i] = e
                      /\ \A j \in 1..(i - 1) : s[j] # e) - 1

\* all sequences over S of length at most n
SeqsUpTo(S, n) == UNION {[1..m -> S] : m \in 0..n}

----------------------------------------------------------------------------
(* The environment: configuration source and HTTP answers                  *)

BaseUrl == <<"https://ipam">>

UrlVals == {<<>>, BaseUrl}
UserVals == {EmptyStr, "user"}
PasswordVals == {"secret"}
Tokens == {"tokA", "tokB"}

AuthConfigs ==
  {[k \in D |-> IF k = "user" THEN u ELSE p] :
     D \in SUBSET {"user", "password"}, u \in UserVals, p \in PasswordVals}

\* the value of the 'phpipam' key of the master configuration
PhpipamConfigs ==
  {[k \in D |-> IF k = "url" THEN u ELSE a] :
     D \in SUBSET {"url", "auth"}, u \in UrlVals, a \in AuthConfigs}

\* what salt.config.client_config can yield: it raises (readable FALSE) or
\* returns the master options, with or without a 'phpipam' section
ConfigSources ==
  {[readable |-> FALSE, opts |-> EmptyDict]}
    \cup {[readable |-> TRUE, opts |-> EmptyDict]}
    \cup {[readable |-> TRUE, opts |-> [phpipam |-> c]] : c \in PhpipamConfigs}

codes_ok == 200
Statuses == {200, 304, 404}

\* Response.raise_for_status() raises HTTPError for 4xx and 5xx only
RaisesForStatus(s) == s >= 400 /\ s < 600

\* bodies of the authentication answer
AuthBodies ==
  {[data |-> [token |-> t]] : t \in Tokens}
    \cup {[data |-> EmptyDict], [message |-> "denied"], EmptyDict}

\* an HTTP answer; a status that makes raise_for_status raise is never
\* followed by a read of the body, so such answers carry one fixed body
Answers(bodies) ==
  {[status |-> s, body |-> b] :
     s \in {x \in Statuses : ~RaisesForStatus(x)}, b \in bodies}
    \cup {[status |-> s, body |-> [message |-> "error"]] :
            s \in {x \in Statuses : RaisesForStatus(x)}}

NoResp == [status |-> 0, body |-> EmptyDict]

----------------------------------------------------------------------------
(* class Api                                                               *)

NoErr == [type |-> None, site |-> None]
Raise(t, s) == [type |-> t, site |-> s]

NoApi == [live |-> FALSE, phpipam_url |-> <<>>, user |-> EmptyStr,
          password |-> EmptyStr, api_url |-> <<>>, token |-> None]

\* the KeyError of line 51 left as it is
ConfigError_keyerror == Raise("KeyError", "config")

\* the exception raised at lines 54 and 71
ConfigError == Raise("CommandExecutionError", "config")

\* "{0}/{1}".format(a, b)
FormatSlash(a, b) == a \o <<"/">> \o b

\* '{0}/api/lookup/'.format(url)
ApiUrl(url) == url \o <<"/", "api", "/", "lookup", "/">>

\* the URL that _get_token and query request for a resource
RequestUrl(a, resource) == FormatSlash(a.api_url, resource)

\* Api._config: master_opts.get('phpipam', {})
Api_config(src) == IF "phpipam" \in DOMAIN src.opts
                   THEN src.opts["phpipam"] ELSE EmptyDict

\* the try block of __init__: a KeyError on url, auth, user or password
ConfigKeyError(cfg) ==
  \/ "url" \notin DOMAIN cfg
  \/ "auth" \notin DOMAIN cfg
  \/ "user" \notin DOMAIN cfg["auth"]
  \/ "password" \notin DOMAIN cfg["auth"]

\* requests refuses a URL without a scheme before sending anything
MissingSchema(url) == Len(url) = 0 \/ url[1] = "/"

\* the POST request of _get_token, with its basic credentials
PostRequest(a, resource) ==
  [method |-> "POST", url |-> RequestUrl(a, resource),
   user |-> a.user, password |-> a.password, token |-> None]

\* a query sent without the token header value
GetRequest_notoken(a, resource) ==
  [method |-> "GET", url |-> RequestUrl(a, resource),
   user |-> None, password |-> None, token |-> None]

\* the GET request of query, with its token header
GetRequest(a, resource) ==
  [method |-> "GET", url |-> RequestUrl(a, resource),
   user |-> None, password |-> None, token |-> a.token]

\* the status test that precedes the parsing of every answer
StatusRaises(status) == status # codes_ok /\ RaisesForStatus(status)

\* response.json()['data']['token'] raises KeyError
TokenKeyError(body) ==
  \/ "data" \notin DOMAIN body
  \/ "token" \notin DOMAIN body["data"]

\* Api.__init__ with _config and _get_token: the outcome of constructing a
\* session from configuration source src when the server answers with r.
\* sent is the sequence of requests that went out.
Api_init(src, r) ==
  IF ~src.readable
  THEN [err |-> ConfigError, api |-> NoApi,
        sent |-> <<>>, answered |-> FALSE]
  ELSE LET cfg == Api_config(src) IN
    IF ConfigKeyError(cfg)
    THEN [err |-> ConfigError, api |-> NoApi,
          sent |-> <<>>, answered |-> FALSE]
    ELSE LET a0 == [live |-> FALSE, phpipam_url |-> cfg["url"],
                    user |-> cfg["auth"]["user"],
                    password |-> cfg["auth"]["password"],
                    api_url |-> ApiUrl(cfg["url"]), token |-> None]
             rq == PostRequest(a0, <<"user">>)
         IN
      IF MissingSchema(rq.url)
      THEN [err |-> Raise("MissingSchema", "auth"), api |-> NoApi,
            sent |-> <<>>, answered |-> FALSE]
      ELSE IF StatusRaises(r.status)
      THEN [err |-> Raise("HTTPError", "auth"), api |-> NoApi,
            sent |-> <<rq>>, answered |-> TRUE]
      ELSE IF TokenKeyError(r.body)
      THEN [err |-> Raise("KeyError", "auth"), api |-> NoApi,
            sent |-> <<rq>>, answered |-> TRUE]
      ELSE [err |-> NoErr,
            api |-> [a0 EXCEPT !.live = TRUE,
                               !.token = r.body["data"]["token"]],
            sent |-> <<rq>>, answered |-> TRUE]

\* Api.query: the outcome of one query when the server answers with r
Api_query(a, resource, r) ==
  IF StatusRaises(r.status)
  THEN [err |-> Raise("HTTPError", "query"), value |-> EmptyDict]
  ELSE IF "data" \in DOMAIN r.body
  THEN [err |-> NoErr, value |-> r.body["data"]]
  ELSE [err |-> NoErr, value |-> EmptyDict]


----------------------------------------------------------------------------
(* Remote data                                                             *)

Hostnames == {"h"}
TagNames == {"Used"}

IpVals == {EmptyStr, "10.0.0.1"}
HostVals == {"h", "hx"}
SubnetIdVals == {None, "5", "6"}
SubnetIds == {"5", "6"}

\* address records as the hostname search returns them
AddressRecs ==
  {Dict([ip |-> i, hostname |-> h, subnetId |-> s]) :
     i \in IpVals, h \in HostVals, s \in SubnetIdVals}

SubnetFull == [calculation |-> ("Subnet netmask" :> "255.255.255.0"),
               description |-> "lan"]
SubnetNoCalc == [description |-> "dmz"]

SubnetBodies == {[message |-> "not found"], [data |-> SubnetFull],
                 [data |-> SubnetNoCalc]}

TagTypeVals == {None, "Used", "Offline"}
TagIdVals == {None, "1", "2"}

\* tag objects as addresses/tags/ returns them
TagEntries == {Dict([type |-> t, id |-> i]) : t \in TagTypeVals, i \in TagIdVals}

AddrIpVals == {None, "10.0.0.1"}
GatewayVals == {None, JsonZero, JsonOne}
DescriptionVals == {None, "printer"}

\* address objects as addresses/tags/<id>/addresses/ returns them; the
\* object with no key at all is among them
AddrEntries ==
  {Dict([ip |-> i, description |-> d, hostname |-> None, is_gateway |-> g]) :
     i \in AddrIpVals, d \in DescriptionVals, g \in GatewayVals}

\* bodies of the answer to a query for a list
ListBodies(entries, n) ==
  {[data |-> l] : l \in SeqsUpTo(entries, n)}
    \cup {[message |-> "No results"], EmptyDict}

----------------------------------------------------------------------------
(* get                                                                     *)

SearchResource(k) ==
  <<"addresses", "/", "search_hostname_partial", "/", k>>

SubnetResource(subnetId) == <<"subnets", "/", subnetId>>

\* line 148 without the comparison of the hostname
Selected_anyhost(entry, k) ==
  /\ Truthy(Get(entry, "ip"))
  /\ Truthy(Get(entry, "subnetId"))

\* the test of line 148
Selected(entry, k) ==
  /\ Truthy(Get(entry, "ip"))
  /\ Truthy(Get(entry, "subnetId"))
  /\ Get(entry, "hostname") = k

\* subnet.get('calculation', {}).get('Subnet netmask')
SubnetNetmask(subnet) ==
  IF "calculation" \in DOMAIN subnet
  THEN Get(subnet["calculation"], "Subnet netmask") ELSE None

\* the value stored for an entry and its subnet
AddressInfo(entry, subnet) ==
  [ipv4 |-> Get(entry, "ip"),
   netmask |-> SubnetNetmask(subnet),
   description |-> Get(subnet, "description"),
   subnet_id |-> Get(entry, "subnetId")]

\* the key under which the entry is stored
EntryKey(d, entry) == Str(ListIndex(d, entry))

----------------------------------------------------------------------------
(* get_tags, get_tag_id, get_addrs_by_tag                                  *)

TagsResource == <<"addresses", "/", "tags", "/">>

TaggedResource(id) ==
  <<"addresses", "/", "tags", "/", id, "/", "addresses", "/">>

RECURSIVE TagScan(_, _, _)
\* the for loop of get_tag_id from position i on
TagScan(entries, t, i) ==
  IF i > Len(entries) THEN EmptyDict
  ELSE IF Get(entries[i], "type") = t
       THEN [tag |-> t, tag_id |-> Get(entries[i], "id")]
       ELSE TagScan(entries, t, i + 1)

\* get_tag_id returning the last entry of the type instead of the first
TagIdOf_last(tags, t) ==
  LET hits == IF NonEmpty(tags)
              THEN {i \in DOMAIN tags : Get(tags[i], "type") = t} ELSE {}
      last == CHOOSE i \in hits : \A j \in hits : j <= i
  IN IF hits = {} THEN EmptyDict
     ELSE [tag |-> t, tag_id |-> Get(tags[last], "id")]

\* get_tag_id applied to what get_tags returned ({} has nothing to scan)
TagIdOf(tags, t) == IF NonEmpty(tags) THEN TagScan(tags, t, 1) ELSE EmptyDict

\* is_valid asking for an is_gateway field that is present and falsy
is_valid_strict(entry, excl) ==
  IF ~excl THEN TRUE
  ELSE NonEmpty(entry) /\ Get(entry, "is_gateway") = JsonZero

\* the lambda is_valid
is_valid(entry, excl) ==
  IF ~excl THEN TRUE
  ELSE NonEmpty(entry) /\ ~Truthy(Get(entry, "is_gateway"))

\* the value stored in details for an entry
AddrDetail(entry) ==
  [description |-> Get(entry, "description"),
   hostname |-> Get(entry, "hostname"),
   is_gateway |-> Get(entry, "is_gateway")]

RECURSIVE AddrLoop(_, _, _, _, _)
\* the for loop of get_addrs_by_tag from position i on
AddrLoop(entries, excl, i, details, ip_addrs) ==
  IF i > Len(entries) THEN [details |-> details, ip_addrs |-> ip_addrs]
  ELSE IF is_valid(entries[i], excl)
       THEN AddrLoop(entries, excl, i + 1,
                     Put(details, Get(entries[i], "ip"), AddrDetail(entries[i])),
                     Append(ip_addrs, Get(entries[i], "ip")))
       ELSE AddrLoop(entries, excl, i + 1, details, ip_addrs)

\* lines 225-244: the result built from the query result
AddrsResult(entries, excl, t) ==
  LET r == IF NonEmpty(entries)
           THEN AddrLoop(entries, excl, 1, EmptyDict, <<>>)
           ELSE [details |-> EmptyDict, ip_addrs |-> <<>>]
  IN [details |-> r.details, ip_addrs |-> r.ip_addrs, tag |-> t]

----------------------------------------------------------------------------
(* The invocation                                                          *)

Ops == {"get", "get_tags", "get_tag_id", "get_addrs_by_tag"}

Init ==
  /\ op \in Ops
  /\ key \in (IF op = "get" THEN Hostnames ELSE {None})
  /\ tag \in (IF op \in {"get_tag_id", "get_addrs_by_tag"}
              THEN TagNames ELSE {None})
  /\ exclude_gateway \in (IF op = "get_addrs_by_tag" THEN BOOLEAN ELSE {FALSE})
  /\ subnets \in (IF op = "get" THEN [SubnetIds -> SubnetBodies]
                  ELSE {[s \in SubnetIds |-> [message |-> "not found"]]})
  /\ pc = (IF op = "get" THEN "get_Api" ELSE "tags_Api")
  /\ config = [readable |-> FALSE, opts |-> EmptyDict]
  /\ api = NoApi
  /\ reqs = <<>>
  /\ resp = NoResp
  /\ grants = <<>>
  /\ data = EmptyDict
  /\ idx = 0
  /\ tag_id = None
  /\ ret = EmptyDict
  /\ err = NoErr

\* api = Api() at lines 134, 176 and 220
ApiNew ==
  /\ pc \in {"get_Api", "tags_Api", "addrs_Api"}
  /\ \E src \in ConfigSources, r \in Answers(AuthBodies) :
       LET out == Api_init(src, r) IN
         /\ config' = src
         /\ api' = out.api
         /\ reqs' = reqs \o out.sent
         /\ resp' = IF out.answered THEN r ELSE resp
         /\ grants' = IF out.err = NoErr
                      THEN Append(grants, [at |-> Len(reqs) + 1,
                                           token |-> out.api.token])
                      ELSE grants
         /\ err' = out.err
         /\ pc' = IF out.err # NoErr THEN "raised"
                  ELSE IF pc = "get_Api" THEN "get_search"
                  ELSE IF pc = "tags_Api" THEN "tags_query"
                  ELSE "addrs_query"
  /\ UNCHANGED <<op, key, tag, exclude_gateway, subnets, data, idx,
                 tag_id, ret>>

\* lines 135-142 of get: the hostname search
GetSearch ==
  /\ pc = "get_search"
  /\ \E r \in Answers(ListBodies(AddressRecs, MaxRecs)) :
       LET out == Api_query(api, SearchResource(key), r) IN
         /\ reqs' = Append(reqs, GetRequest(api, SearchResource(key)))
         /\ resp' = r
         /\ err' = out.err
         /\ data' = out.value
         /\ idx' = 1
         /\ pc' = IF out.err # NoErr THEN "raised"
                  ELSE IF ~NonEmpty(out.value) THEN "done"
                  ELSE "get_loop"
  /\ ret' = EmptyDict
  /\ UNCHANGED <<op, key, tag, exclude_gateway, config, api, grants, subnets,
                 tag_id>>

\* where get goes after the loop body at position idx
AfterEntry == IF idx = Len(data) THEN "done" ELSE "get_loop"

\* lines 144-164 of get: one pass of the for loop
GetEntry ==
  /\ pc = "get_loop"
  /\ LET entry == data[idx] IN
       IF Selected(entry, key)
       THEN \E s \in Statuses :
              LET rsrc == SubnetResource(Get(entry, "subnetId"))
                  r == IF RaisesForStatus(s)
                       THEN [status |-> s, body |-> [message |-> "error"]]
                       ELSE [status |-> s,
                             body |-> subnets[Get(entry, "subnetId")]]
                  out == Api_query(api, rsrc, r)
              IN /\ reqs' = Append(reqs, GetRequest(api, rsrc))
                 /\ resp' = r
                 /\ err' = out.err
                 /\ IF out.err # NoErr
                    THEN /\ pc' = "raised"
                         /\ UNCHANGED <<ret, idx>>
                    ELSE /\ ret' = IF NonEmpty(out.value)
                                   THEN Put(ret, EntryKey(data, entry),
                                            AddressInfo(entry, out.value))
                                   ELSE ret
                         /\ idx' = idx + 1
                         /\ pc' = AfterEntry
       ELSE /\ idx' = idx + 1
            /\ pc' = AfterEntry
            /\ UNCHANGED <<reqs, resp, err, ret>>
  /\ UNCHANGED <<op, key, tag, exclude_gateway, config, api, grants, subnets,
                 data, tag_id>>

\* lines 177-178 of get_tags, and the return into its caller
TagsQuery ==
  /\ pc = "tags_query"
  /\ \E r \in Answers(ListBodies(TagEntries, MaxTags)) :
       LET out == Api_query(api, TagsResource, r) IN
         /\ reqs' = Append(reqs, GetRequest(api, TagsResource))
         /\ resp' = r
         /\ err' = out.err
         /\ data' = out.value
         /\ ret' = IF out.err = NoErr /\ op = "get_tags"
                   THEN out.value ELSE ret
         /\ pc' = IF out.err # NoErr THEN "raised"
                  ELSE IF op = "get_tags" THEN "done"
                  ELSE "tag_scan"
  /\ UNCHANGED <<op, key, tag, exclude_gateway, config, api, grants, subnets,
                 idx, tag_id>>

\* lines 191-199 of get_tag_id, and lines 215-218 of get_addrs_by_tag
\* when it is the caller
TagIdScan ==
  /\ pc = "tag_scan"
  /\ LET found == TagIdOf(data, tag) IN
       IF op = "get_tag_id"
       THEN /\ ret' = found
            /\ pc' = "done"
            /\ UNCHANGED <<tag_id, data>>
       ELSE /\ tag_id' = Get(found, "tag_id")
            /\ data' = found
            /\ ret' = EmptyDict
            /\ pc' = IF Truthy(Get(found, "tag_id"))
                     THEN "addrs_Api" ELSE "done"
  /\ UNCHANGED <<op, key, tag, exclude_gateway, config, api, reqs, resp,
                 grants, subnets, idx, err>>

\* lines 221-244 of get_addrs_by_tag
AddrsQuery ==
  /\ pc = "addrs_query"
  /\ \E r \in Answers(ListBodies(AddrEntries, MaxAddrs)) :
       LET rsrc == TaggedResource(tag_id)
           out == Api_query(api, rsrc, r)
       IN /\ reqs' = Append(reqs, GetRequest(api, rsrc))
          /\ resp' = r
          /\ err' = out.err
          /\ data' = out.value
          /\ ret' = IF out.err = NoErr
                    THEN AddrsResult(out.value, exclude_gateway, tag)
                    ELSE ret
          /\ pc' = IF out.err # NoErr THEN "raised" ELSE "done"
  /\ UNCHANGED <<op, key, tag, exclude_gateway, config, api, grants, subnets,
                 idx, tag_id>>

Next ==
  \/ ApiNew
  \/ GetSearch
  \/ GetEntry
  \/ TagsQuery
  \/ TagIdScan
  \/ AddrsQuery

Spec == Init /\ [][Next]_vars

----------------------------------------------------------------------------
(* Vocabulary of the properties                                            *)

Last(s) == s[Len(s)]

\* a success status is a 2xx status
Success(status) == status >= 200 /\ status <= 299

Returned(f) == op = f /\ pc = "done"

\* positions of the search result (1-based; the code counts from 0)
Positions == IF NonEmpty(data) THEN DOMAIN data ELSE {}

\* the result that a query of subnets/<id> gives when it returns
SubnetResult(id) ==
  IF "data" \in DOMAIN subnets[id] THEN subnets[id]["data"] ELSE EmptyDict

\* the record at position i has the hostname asked for, an ip and a subnet
Matching(i) ==
  /\ "hostname" \in DOMAIN data[i] /\ data[i]["hostname"] = key
  /\ "ip" \in DOMAIN data[i] /\ data[i]["ip"] # EmptyStr
  /\ "subnetId" \in DOMAIN data[i] /\ data[i]["subnetId"] # EmptyStr

\* the record at position i is one that get reports
Survives(i) ==
  /\ Matching(i)
  /\ SubnetResult(data[i]["subnetId"]) # EmptyDict

\* the entry that get reports for a surviving record
ExpectedInfo(i) ==
  LET sub == SubnetResult(data[i]["subnetId"]) IN
    [ipv4 |-> data[i]["ip"],
     netmask |-> IF "calculation" \in DOMAIN sub
                    /\ "Subnet netmask" \in DOMAIN sub["calculation"]
                 THEN sub["calculation"]["Subnet netmask"] ELSE None,
     description |-> IF "description" \in DOMAIN sub
                     THEN sub["description"] ELSE None,
     subnet_id |-> data[i]["subnetId"]]

----------------------------------------------------------------------------
(* C1: when get(h) returns, its result holds an entry for a record of the  *)
(* search result if and only if the record's hostname is exactly h, its ip *)
(* and subnetId are non-empty and the query of its subnet returned a       *)
(* non-empty result: every entry of the result is keyed by the position of *)
(* such a record and is {ipv4, netmask, description, subnet_id} of that    *)
(* record and its subnet, every such record has its entry in the result,   *)
(* and a matching record whose subnet query returned empty has none.       *)
C1_EntriesAreSurvivors ==
  Returned("get") =>
    /\ \A k \in DOMAIN ret :
         \E i \in Positions :
           Survives(i) /\ k = Str(i - 1) /\ ret[k] = ExpectedInfo(i)
    /\ \A i \in Positions :
         IF Survives(i)
         THEN \E k \in DOMAIN ret : ret[k] = ExpectedInfo(i)
         ELSE Str(i - 1) \notin DOMAIN ret

\* get returned one entry for a search result of two matching records, one
\* of which was dropped because its subnet query returned empty
C1_Witness ==
  /\ Returned("get")
  /\ Len(reqs) = 4
  /\ Cardinality(DOMAIN ret) = 1
  /\ \E i \in Positions : Matching(i) /\ ~Survives(i)

(* C2: when get(h) returns, every surviving record is stored under the     *)
(* stringified position it has in the search result, so that n surviving   *)
(* records yield n entries keyed by their n positions, also when records   *)
(* of the array have identical field values.                               *)
C2_KeyedByPosition ==
  Returned("get") =>
    DOMAIN ret = {Str(i - 1) : i \in {j \in Positions : Survives(j)}}

\* get returned one entry for two surviving records with identical fields
C2_Duplicates ==
  /\ Returned("get")
  /\ Len(reqs) = 4
  /\ \A i \in Positions : Survives(i)
  /\ Cardinality(DOMAIN ret) = 1

----------------------------------------------------------------------------
\* the entries that addresses/tags/<id>/addresses/ returned
Entries == IF NonEmpty(data) THEN DOMAIN data ELSE {}

\* the field is_gateway of entry i is falsy or absent
NotGateway(i) ==
  \/ "is_gateway" \notin DOMAIN data[i]
  \/ data[i]["is_gateway"] \in {JsonZero, EmptyStr}

\* entry i passes the filter of get_addrs_by_tag
Kept(i) ==
  \/ ~exclude_gateway
  \/ (data[i] # EmptyDict /\ NotGateway(i))

KeptEntries == {i \in Entries : Kept(i)}

\* the ip of entry i, None when the entry has no ip
IpOf(i) == IF "ip" \in DOMAIN data[i] THEN data[i]["ip"] ELSE None

FieldOf(i, f) == IF f \in DOMAIN data[i] THEN data[i][f] ELSE None

\* the n-th kept entry in the order of the answer
NthKept(n) ==
  CHOOSE i \in KeptEntries : Cardinality({j \in KeptEntries : j <= i}) = n

\* the last kept entry that carries the ip
LastKeptWith(ip) ==
  CHOOSE i \in KeptEntries :
    /\ IpOf(i) = ip
    /\ \A j \in KeptEntries : IpOf(j) = ip => j <= i

\* get_addrs_by_tag returned after its tag resolved to an id and the
\* addresses were queried
ReturnedAddrs == Returned("get_addrs_by_tag") /\ Len(reqs) = 4

(* C3: when get_addrs_by_tag(tag, exclude_gateway) returns for a tag that  *)
(* resolved to an id, the result is {details, ip_addrs, tag}; every entry  *)
(* survives when exclude_gateway is false, and otherwise exactly the       *)
(* non-empty entries whose is_gateway is falsy or absent; ip_addrs lists   *)
(* the ip of the surviving entries in their order, duplicates kept, and    *)
(* details maps each of these ips to {description, hostname, is_gateway}   *)
(* of the last surviving entry that carries it.                            *)
C3_AddrsByTag ==
  ReturnedAddrs =>
    /\ DOMAIN ret = {"details", "ip_addrs", "tag"}
    /\ ret["tag"] = tag
    /\ Len(ret["ip_addrs"]) = Cardinality(KeptEntries)
    /\ \A n \in 1..Cardinality(KeptEntries) :
         ret["ip_addrs"][n] = IpOf(NthKept(n))
    /\ DOMAIN ret["details"] = {IpOf(i) : i \in KeptEntries}
    /\ \A ip \in DOMAIN ret["details"] :
         ret["details"][ip] =
           [description |-> FieldOf(LastKeptWith(ip), "description"),
            hostname |-> FieldOf(LastKeptWith(ip), "hostname"),
            is_gateway |-> FieldOf(LastKeptWith(ip), "is_gateway")]

\* with exclude_gateway set, a gateway was dropped and an entry without
\* the field is_gateway was kept
C3_Witness ==
  /\ ReturnedAddrs
  /\ exclude_gateway
  /\ Len(data) = 2
  /\ Len(ret["ip_addrs"]) = 1
  /\ \E i \in Entries : Get(data[i], "is_gateway") = JsonOne
  /\ \E i \in Entries : data[i] # EmptyDict /\ "is_gateway" \notin DOMAIN data[i]

----------------------------------------------------------------------------
\* the tag entries whose type is the tag asked for
TagMatches ==
  IF NonEmpty(data)
  THEN {i \in DOMAIN data : "type" \in DOMAIN data[i] /\ data[i]["type"] = tag}
  ELSE {}

FirstTagMatch == CHOOSE i \in TagMatches : \A j \in TagMatches : i <= j

(* C4: when get_tag_id(t) returns, the result is {tag: t, tag_id: id} with *)
(* id the id of the first entry of the tag list whose type is exactly t,   *)
(* and it is the empty mapping when no entry has that type or the tag      *)
(* query found nothing; neither case raises.                               *)
C4_FirstMatchWins ==
  /\ Returned("get_tag_id") =>
       IF TagMatches = {}
       THEN ret = EmptyDict
       ELSE ret = [tag |-> tag,
                   tag_id |-> FieldOf(FirstTagMatch, "id")]
  /\ (op = "get_tag_id" /\ pc = "raised") =>
       \/ err.site \in {"config", "auth"}
       \/ (err.site = "query" /\ ~Success(resp.status))

\* two entries carry the type asked for, with different ids, and the id of
\* the first was returned
C4_Witness ==
  /\ Returned("get_tag_id")
  /\ Cardinality(TagMatches) = 2
  /\ \E i, j \in TagMatches : FieldOf(i, "id") # FieldOf(j, "id")
  /\ ret["tag_id"] = FieldOf(1, "id")
  /\ ret["tag_id"] # None

----------------------------------------------------------------------------
\* the last request sent was a query / an authentication, so that resp is
\* the answer to it
QueryAnswered == reqs # <<>> /\ Last(reqs).method = "GET"
AuthAnswered == reqs # <<>> /\ Last(reqs).method = "POST"

TransportError == err = Raise("HTTPError", "query")
AuthenticationError == err.site = "auth"
ConfigurationError == err = Raise("CommandExecutionError", "config")

(* C5: a query whose answer has a status code that is not success fails    *)
(* with TransportError; its body is not parsed and nothing is returned.    *)
C5_NonSuccessQueryRaises ==
  (QueryAnswered /\ ~Success(resp.status)) =>
    (pc = "raised" /\ TransportError)

(* C6: when the authentication answer has a status code that is not        *)
(* success, or a body without data.token, the construction of Api fails    *)
(* with AuthenticationError; no session holds a token afterwards and no    *)
(* query is issued.                                                        *)
C6_BadAuthAnswerRaises ==
  (AuthAnswered /\ (~Success(resp.status) \/ TokenKeyError(resp.body))) =>
    (pc = "raised" /\ AuthenticationError /\ ~api.live)

----------------------------------------------------------------------------
\* Api() has run at least once
Constructed == pc \notin {"get_Api", "tags_Api"}

\* the configuration that the last Api() read lacks url, auth, auth.user
\* or auth.password (or could not be read at all)
ConfigMissing ==
  \/ ~config.readable
  \/ "phpipam" \notin DOMAIN config.opts
  \/ "url" \notin DOMAIN config.opts["phpipam"]
  \/ "auth" \notin DOMAIN config.opts["phpipam"]
  \/ "user" \notin DOMAIN config.opts["phpipam"]["auth"]
  \/ "password" \notin DOMAIN config.opts["phpipam"]["auth"]

\* url, auth.user or auth.password is present and empty
ConfigEmpty ==
  /\ ~ConfigMissing
  /\ \/ config.opts["phpipam"]["url"] = <<>>
     \/ config.opts["phpipam"]["auth"]["user"] = EmptyStr
     \/ config.opts["phpipam"]["auth"]["password"] = EmptyStr

\* the last Api() failed with ConfigurationError and sent nothing
RejectedUnsent ==
  /\ pc = "raised"
  /\ ConfigurationError
  /\ ~api.live
  /\ ~AuthAnswered

(* C7 as stated: a configuration in which url, auth.user or auth.password  *)
(* is missing or empty makes the construction of Api fail with             *)
(* ConfigurationError before any authentication request is sent.           *)
C7_MissingOrEmptyRejected ==
  (Constructed /\ (ConfigMissing \/ ConfigEmpty)) => RejectedUnsent

(* C7 amended: a configuration in which url, auth, auth.user or            *)
(* auth.password is missing makes the construction of Api fail with        *)
(* ConfigurationError before any authentication request is sent; an empty  *)
(* value is not rejected by the construction.                              *)
C7_MissingRejected ==
  (Constructed /\ ConfigMissing) => RejectedUnsent

\* a configuration with url and auth.user but no auth.password was rejected
C7_Witness ==
  /\ pc = "raised"
  /\ ConfigurationError
  /\ config.readable
  /\ "phpipam" \in DOMAIN config.opts
  /\ DOMAIN config.opts["phpipam"] = {"url", "auth"}
  /\ DOMAIN config.opts["phpipam"]["auth"] = {"user"}
  /\ reqs = <<>>

----------------------------------------------------------------------------
AuthRequests == {i \in DOMAIN reqs : reqs[i].method = "POST"}
QueryRequests == {i \in DOMAIN reqs : reqs[i].method = "GET"}

\* the token that the authentication request at position i obtained
GrantAt(i) == (CHOOSE g \in {grants[n] : n \in DOMAIN grants} : g.at = i).token

Granted(i) == \E n \in DOMAIN grants : grants[n].at = i

(* C8 as stated: every invocation of a lookup function performs exactly    *)
(* one authentication round-trip, which precedes all its queries, and      *)
(* every query carries the token obtained by that authentication.          *)
C8_OneAuthentication ==
  /\ Cardinality(AuthRequests) <= 1
  /\ pc = "done" => Cardinality(AuthRequests) = 1
  /\ \A q \in QueryRequests :
       /\ 1 \in AuthRequests
       /\ Granted(1)
       /\ reqs[q].token = GrantAt(1)

\* the last authentication request before the query at position q
AuthBefore(q) ==
  CHOOSE a \in AuthRequests : a < q /\ \A b \in AuthRequests : b < q => b <= a

(* C8 amended: get, get_tags and get_tag_id perform exactly one            *)
(* authentication round-trip, which precedes all their queries.            *)
(* get_addrs_by_tag authenticates once before the tag query and, when the  *)
(* tag resolves to an id, constructs a second Api and authenticates a      *)
(* second time before the address query.  Every query carries the token    *)
(* obtained by the authentication that most recently preceded it.          *)
C8_AuthenticationPerApi ==
  /\ op # "get_addrs_by_tag" =>
       /\ Cardinality(AuthRequests) <= 1
       /\ pc = "done" => Cardinality(AuthRequests) = 1
  /\ op = "get_addrs_by_tag" =>
       /\ pc = "done" =>
            IF Truthy(tag_id)
            THEN [i \in DOMAIN reqs |-> reqs[i].method]
                   = <<"POST", "GET", "POST", "GET">>
            ELSE [i \in DOMAIN reqs |-> reqs[i].method] = <<"POST", "GET">>
       /\ Cardinality(AuthRequests) <= 2
  /\ \A q \in QueryRequests :
       /\ \E a \in AuthRequests : a < q
       /\ Granted(AuthBefore(q))
       /\ reqs[q].token = GrantAt(AuthBefore(q))

\* get_addrs_by_tag returned after two authentications that obtained
\* different tokens
C8_Witness ==
  /\ ReturnedAddrs
  /\ Len(grants) = 2
  /\ grants[1].token # grants[2].token
  /\ reqs[4].token = grants[2].token

----------------------------------------------------------------------------
\* the last answer received was a failure
FailedAnswer == resp # NoResp /\ ~Success(resp.status)

(* C9: there is no retry: once an authentication request or a query has    *)
(* failed, the invocation sends no further HTTP request and the failure    *)
(* reaches the caller, no result being returned.                           *)
C9_NothingAfterFailure ==
  [][FailedAnswer => (reqs' = reqs /\ pc' # "done")]_vars

----------------------------------------------------------------------------
\* the base URL of every configuration for which a request goes out
ConfiguredUrl == BaseUrl

LookupPrefix == <<"/", "api", "/", "lookup", "/">>

(* C10: every request matches the wire contract: the authentication is a   *)
(* POST to <base_url>/api/lookup/user and a query for resource path p is a *)
(* GET to <base_url>/api/lookup/ followed directly by p, with exactly one  *)
(* slash between lookup and the resource path.                             *)
C10_WireContract ==
  \A i \in DOMAIN reqs :
    LET u == reqs[i].url
        n == Len(ConfiguredUrl) + Len(LookupPrefix)
    IN /\ Len(u) > n
       /\ SubSeq(u, 1, n) = ConfiguredUrl \o LookupPrefix
       /\ u[n + 1] # "/"
       /\ reqs[i].method = "POST" => u = ConfiguredUrl \o LookupPrefix \o <<"user">>

====
